---- MODULE Spec2Model ----
(***************************************************************************)
(* TextEdit2: the document with its bounded undo history                   *)
(* (src/src/document.rs, GenericDocument<T: FileSystem>) and the reducer   *)
(* with its background I/O tasks (src/src/application_model.rs,            *)
(* ApplicationModel::update, driven by the channel of application.rs).     *)
(*                                                                         *)
(* Texts and paths are small naturals: text 0 is the empty string          *)
(* (String::new()), path 0 is Option::None.  Vec indices are 0-based as in *)
(* the source; Get/VecRemove/VecInsert/VecTruncate translate to the        *)
(* 1-based sequences of TLA+.                                              *)
(***************************************************************************)
EXTENDS Integers, Sequences, FiniteSets, TLC

\* ---------------------------------------------------------------- bounds
\* const MAX_UNDO: usize = 100, scaled down so that a full history is reached
MAX_UNDO == 4
\* texts are 0..MaxText
MaxText == 2
\* paths are 1..MaxPath
MaxPath == 2
\* actions the presentation layer sends in one run of the reducer
MaxRequests == 2

\* ------------------------------------------------------------- constants
EmptyString == 0
None == 0
NoFile == -1

Texts == EmptyString..MaxText
Paths == 1..MaxPath
\* the texts of the eviction scenario: enough for MAX_UNDO distinct non-empty ones
DistinctTexts == 1..(MAX_UNDO + 1)
FileContents == Texts \cup {NoFile}

VARIABLES
    doc,        \* the GenericDocument: history, file_path, current_revision
    fs,         \* the file system behind the FileSystem trait: path -> contents
    panicked,   \* an expect() of OSFileSystem failed: the call unwound
    lastOp,     \* the last operation called, its argument and its outcome
    prev,       \* the document as it was when lastOp was called
    updates,    \* eviction scenario: the texts passed to update so far
    status,     \* ApplicationModel::status_message
    chan,       \* the glib channel: actions sent and not yet received
    tasks,      \* the threads spawned so far, each with what it captured
    changes,    \* the Changes returned for the last action processed
    processed,  \* the last action the reducer processed
    before,     \* the action the reducer processed before that one
    requests,   \* number of actions the presentation layer has sent
    delivered,  \* the tasks whose completion action the reducer processed
    buffer,     \* the text held by the window's gtk::TextBuffer
    opened      \* contents of the last successful open, while nothing
                \* but that open's own refresh was processed after it

rvars == <<status, chan, tasks, changes, processed, before, requests,
           delivered, buffer, opened>>

vars == <<doc, fs, panicked, lastOp, prev, updates, status, chan, tasks,
          changes, processed, before, requests, delivered, buffer, opened>>

\* ------------------------------------------------------------ Vec<String>
Get(v, index) == v[index + 1]

VecRemove(v, index) ==
    SubSeq(v, 1, index) \o SubSeq(v, index + 2, Len(v))

VecInsert(v, index, elem) ==
    SubSeq(v, 1, index) \o <<elem>> \o SubSeq(v, index + 1, Len(v))

VecTruncate(v, len) ==
    IF len < Len(v) THEN SubSeq(v, 1, len) ELSE v

Min(a, b) == IF a < b THEN a ELSE b

\* ------------------------------------------------------ GenericDocument
new ==
    [history |-> <<EmptyString>>, file_path |-> None, current_revision |-> 0]

filepath(d) == d.file_path

can_undo(d) == d.current_revision > 0

can_redo(d) == d.current_revision < Len(d.history) - 1

text(d) ==
    IF d.current_revision >= 0 /\ d.current_revision < Len(d.history)
    THEN Get(d.history, d.current_revision)
    ELSE EmptyString

original(d) == Get(d.history, 0)

is_dirty(d) == text(d) # original(d)

undo_unguarded(d) ==
    [d EXCEPT !.current_revision = d.current_revision - 1]

undo_to_first(d) ==
    IF d.current_revision > 0
    THEN [d EXCEPT !.current_revision = 0]
    ELSE d

undo(d) ==
    IF d.current_revision > 0
    THEN [d EXCEPT !.current_revision = d.current_revision - 1]
    ELSE d

redo_to_last(d) ==
    IF d.history # << >>
    THEN [d EXCEPT !.current_revision = Len(d.history) - 1]
    ELSE d

redo_unclamped(d) ==
    IF d.history # << >>
    THEN [d EXCEPT !.current_revision = d.current_revision + 1]
    ELSE d

redo(d) ==
    IF d.history # << >>
    THEN [d EXCEPT !.current_revision =
              Min(Len(d.history) - 1, d.current_revision + 1)]
    ELSE d

update_noevict(d, value) ==
    LET h2 == VecTruncate(d.history, d.current_revision + 1)
        h3 == Append(h2, value)
    IN  [d EXCEPT !.history = h3, !.current_revision = Len(h3) - 1]

update_evict0(d, value) ==
    LET h1 == IF Len(d.history) >= MAX_UNDO
              THEN VecRemove(d.history, 0) ELSE d.history
        h2 == VecTruncate(h1, d.current_revision + 1)
        h3 == Append(h2, value)
    IN  [d EXCEPT !.history = h3, !.current_revision = Len(h3) - 1]

update_evict_last(d, value) ==
    LET h1 == IF Len(d.history) >= MAX_UNDO
              THEN VecRemove(d.history, Len(d.history) - 1) ELSE d.history
        h2 == VecTruncate(h1, d.current_revision + 1)
        h3 == Append(h2, value)
    IN  [d EXCEPT !.history = h3, !.current_revision = Len(h3) - 1]

update_stale_position(d, value) ==
    LET h1 == IF Len(d.history) >= MAX_UNDO
              THEN VecRemove(d.history, 1) ELSE d.history
        h2 == VecTruncate(h1, d.current_revision + 1)
        h3 == Append(h2, value)
    IN  [d EXCEPT !.history = h3,
                  !.current_revision = Min(d.current_revision, Len(h3) - 1)]

update(d, value) ==
    LET h1 == IF Len(d.history) >= MAX_UNDO
              THEN VecRemove(d.history, 1) ELSE d.history
        h2 == VecTruncate(h1, d.current_revision + 1)
        h3 == Append(h2, value)
    IN  [d EXCEPT !.history = h3, !.current_revision = Len(h3) - 1]

reset_keeps_path(d) ==
    [history |-> <<EmptyString>>, file_path |-> d.file_path,
     current_revision |-> 0]

reset(d) ==
    [history |-> <<EmptyString>>, file_path |-> None, current_revision |-> 0]

\* FileSystem::read_to_string: the file's text, appended to the caller's
\* fresh (empty) String
read_to_string(f, path) == f[path]

\* FileSystem::write_string
write_string(f, path, contents) == [f EXCEPT ![path] = contents]

\* open, up to the read: the state an unwinding read leaves behind
open_before_read(d, path) ==
    [reset(d) EXCEPT !.file_path = path]

open_without_clear(d, f, path) ==
    LET d1    == open_before_read(d, path)
        input == read_to_string(f, path)
    IN  [d1 EXCEPT !.history = Append(d1.history, input)]

open(d, f, path) ==
    LET d1    == open_before_read(d, path)
        input == read_to_string(f, path)
    IN  [d1 EXCEPT !.history = Append(<< >>, input)]

\* save, up to the write: the state an unwinding write leaves behind
save_before_write(d, path) ==
    [d EXCEPT !.file_path = path]

save_writes_original(d, f, path) ==
    LET contents == text(d)
        d1       == save_before_write(d, path)
        f1       == write_string(f, path, original(d))
        h1       == VecRemove(d1.history, 0)
        h2       == VecInsert(h1, 0, contents)
    IN  [doc |-> [d1 EXCEPT !.history = h2], fs |-> f1]

save_no_reanchor(d, f, path) ==
    LET contents == text(d)
        d1       == save_before_write(d, path)
        f1       == write_string(f, path, contents)
    IN  [doc |-> d1, fs |-> f1]

save_insert_only(d, f, path) ==
    LET contents == text(d)
        d1       == save_before_write(d, path)
        f1       == write_string(f, path, contents)
        h2       == VecInsert(d1.history, 0, contents)
    IN  [doc |-> [d1 EXCEPT !.history = h2], fs |-> f1]

save(d, f, path) ==
    LET contents == text(d)
        d1       == save_before_write(d, path)
        f1       == write_string(f, path, contents)
        h1       == VecRemove(d1.history, 0)
        h2       == VecInsert(h1, 0, contents)
    IN  [doc |-> [d1 EXCEPT !.history = h2], fs |-> f1]

\* ------------------------------------------------------------- Action
OpenFile(path) == [type |-> "OpenFile", path |-> path]

SaveFile(path) == [type |-> "SaveFile", path |-> path]

DocumentChanged(value) == [type |-> "DocumentChanged", value |-> value]

FileOpenFinished(r) == [type |-> "FileOpenFinished", result |-> r]

FileSaveFinished(r) == [type |-> "FileSaveFinished", result |-> r]

\* IOResult = Result<(PathBuf, String), Err>
Ok(path, contents) == [ok |-> TRUE, path |-> path, contents |-> contents]

ErrIOError == [ok |-> FALSE, path |-> None, contents |-> EmptyString]

NoAction == [type |-> "none"]

\* what the presentation layer sends: new file, open, save, buffer edits
UserActions ==
    {OpenFile(p) : p \in Paths \cup {None}}
       \cup {SaveFile(p) : p \in Paths}
       \cup {DocumentChanged(v) : v \in Texts}

\* Sender::send: the channel is a FIFO queue
send_replacing(c, action) == <<action>>

send(c, action) == Append(c, action)

\* ------------------------------------------------------- ApplicationModel
Changes_new(filename, txt, status_message) ==
    [filename |-> filename, text |-> txt, status_message |-> status_message]

\* the two-argument Document::open and Document::save the reducer calls
\* take the contents from the completion action instead of the file system
document_open(d, path, contents) ==
    [history |-> <<contents>>, file_path |-> path, current_revision |-> 0]

document_save(d, path, contents) ==
    [d EXCEPT !.file_path = path,
              !.history = VecInsert(VecRemove(d.history, 0), 0, contents)]

\* a spawned closure: what it moved in (tx is the one channel)
ReadTask(path) ==
    [kind |-> "read", path |-> path, contents |-> EmptyString]

WriteTask(path, contents) ==
    [kind |-> "write", path |-> path, contents |-> contents]

Reduced(d, st, ch, spawn) ==
    [document |-> d, status_message |-> st, changes |-> ch, spawn |-> spawn]

on_OpenFileSome_resets(m, path) ==
    Reduced(reset(m.document), "OpeningFile",
            Changes_new(FALSE, FALSE, TRUE), <<ReadTask(path)>>)

on_OpenFileSome(m, path) ==
    Reduced(m.document, "OpeningFile",
            Changes_new(FALSE, FALSE, TRUE), <<ReadTask(path)>>)

on_OpenFileNone(m) ==
    Reduced(reset(m.document), "OpeningFile",
            Changes_new(FALSE, FALSE, TRUE), << >>)

on_SaveFile_original(m, path) ==
    Reduced(m.document, "SavingFile", Changes_new(FALSE, FALSE, TRUE),
            <<WriteTask(path, original(m.document))>>)

on_SaveFile(m, path) ==
    Reduced(m.document, "SavingFile", Changes_new(FALSE, FALSE, TRUE),
            <<WriteTask(path, text(m.document))>>)

on_DocumentChanged_dedup(m, value) ==
    Reduced(IF value = text(m.document)
            THEN m.document ELSE update(m.document, value),
            m.status_message, Changes_new(FALSE, FALSE, FALSE), << >>)

on_DocumentChanged_rewinds(m, value) ==
    Reduced(undo(update(m.document, value)), m.status_message,
            Changes_new(FALSE, FALSE, FALSE), << >>)

on_DocumentChanged(m, value) ==
    Reduced(update(m.document, value), m.status_message,
            Changes_new(FALSE, FALSE, FALSE), << >>)

on_FileOpenFinishedOk(m, path, contents) ==
    Reduced(document_open(m.document, path, contents),
            "FileOpenFinished(Ok)", Changes_new(TRUE, TRUE, TRUE), << >>)

on_FileSaveFinishedOk_reopens(m, path, contents) ==
    Reduced(document_open(m.document, path, contents),
            "FileSaveFinished(Ok)", Changes_new(TRUE, FALSE, TRUE), << >>)

on_FileSaveFinishedOk(m, path, contents) ==
    Reduced(document_save(m.document, path, contents),
            "FileSaveFinished(Ok)", Changes_new(TRUE, FALSE, TRUE), << >>)

on_FileOpenFinishedErr_resets(m) ==
    Reduced(reset(m.document), "FileOpenFinished(Err(IOError))",
            Changes_new(FALSE, FALSE, TRUE), << >>)

on_FileOpenFinishedErr(m) ==
    Reduced(m.document, "FileOpenFinished(Err(IOError))",
            Changes_new(FALSE, FALSE, TRUE), << >>)

on_FileSaveFinishedErr(m) ==
    Reduced(m.document, "FileSaveFinished(Err(IOError))",
            Changes_new(FALSE, FALSE, TRUE), << >>)

\* ApplicationModel::update: the match on the action
model_update(m, action) ==
    CASE action.type = "OpenFile" /\ action.path # None ->
            on_OpenFileSome(m, action.path)
      [] action.type = "OpenFile" /\ action.path = None ->
            on_OpenFileNone(m)
      [] action.type = "SaveFile" ->
            on_SaveFile(m, action.path)
      [] action.type = "DocumentChanged" ->
            on_DocumentChanged(m, action.value)
      [] action.type = "FileOpenFinished" /\ action.result.ok ->
            on_FileOpenFinishedOk(m, action.result.path,
                                  action.result.contents)
      [] action.type = "FileSaveFinished" /\ action.result.ok ->
            on_FileSaveFinishedOk(m, action.result.path,
                                  action.result.contents)
      [] action.type = "FileOpenFinished" /\ ~action.result.ok ->
            on_FileOpenFinishedErr(m)
      [] action.type = "FileSaveFinished" /\ ~action.result.ok ->
            on_FileSaveFinishedErr(m)

ApplicationModel_new ==
    [document |-> new, status_message |-> "None"]

\* -------------------------- FileSystem of application_model.rs (io::Result)
\* fault: "none", or the call that returns Err ("open"/"read", "create"/"write")
FileSystem_read_to_string(f, path, fault) ==
    IF fault = "none" /\ f[path] # NoFile
    THEN [ok |-> TRUE, contents |-> f[path], fs |-> f]
    ELSE [ok |-> FALSE, contents |-> EmptyString, fs |-> f]

\* File::create truncates the file before write_all can fail
FileSystem_write_string(f, path, contents, fault) ==
    CASE fault = "none"   -> [ok |-> TRUE, fs |-> [f EXCEPT ![path] = contents]]
      [] fault = "create" -> [ok |-> FALSE, fs |-> f]
      [] fault = "write"  -> [ok |-> FALSE,
                              fs |-> [f EXCEPT ![path] = EmptyString]]

ReadFaults == {"none", "open"}
WriteFaults == {"none", "create", "write"}

\* the body of a spawned closure: the storage call, then the actions it sends
Ran(f, sent, failed) == [fs |-> f, send |-> sent, failed |-> failed]

read_task_swallows(w, f, fault) ==
    LET io == FileSystem_read_to_string(f, w.path, fault)
    IN  Ran(io.fs, <<FileOpenFinished(Ok(w.path, io.contents))>>, ~io.ok)

read_task_unwraps(w, f, fault) ==
    LET io == FileSystem_read_to_string(f, w.path, fault)
    IN  Ran(io.fs,
            IF io.ok THEN <<FileOpenFinished(Ok(w.path, io.contents))>>
                     ELSE << >>,
            ~io.ok)

read_task(w, f, fault) ==
    LET io == FileSystem_read_to_string(f, w.path, fault)
        r  == IF io.ok THEN Ok(w.path, io.contents) ELSE ErrIOError
    IN  Ran(io.fs, <<FileOpenFinished(r)>>, ~io.ok)

write_task_unwraps(w, f, fault) ==
    LET io == FileSystem_write_string(f, w.path, w.contents, fault)
    IN  Ran(io.fs,
            IF io.ok THEN <<FileSaveFinished(Ok(w.path, w.contents))>>
                     ELSE << >>,
            ~io.ok)

write_task(w, f, fault) ==
    LET io == FileSystem_write_string(f, w.path, w.contents, fault)
        r  == IF io.ok THEN Ok(w.path, w.contents) ELSE ErrIOError
    IN  Ran(io.fs, <<FileSaveFinished(r)>>, ~io.ok)

\* ------------------------------------------------------------------ Init
Called(op, arg, ok) == [op |-> op, arg |-> arg, ok |-> ok]

Init ==
    /\ doc = new
    /\ fs \in [Paths -> FileContents]
    /\ panicked = FALSE
    /\ lastOp = Called("new", None, TRUE)
    /\ prev = new
    /\ updates = << >>
    /\ status = ApplicationModel_new.status_message
    /\ chan = << >>
    /\ tasks = << >>
    /\ changes = Changes_new(FALSE, FALSE, FALSE)
    /\ processed = NoAction
    /\ before = NoAction
    /\ requests = 0
    /\ delivered = {}
    /\ buffer = EmptyString
    /\ opened = NoFile

\* --------------------------------------------------------------- actions
Update ==
    /\ ~panicked
    /\ \E value \in Texts :
          /\ doc' = update(doc, value)
          /\ lastOp' = Called("update", value, TRUE)
    /\ prev' = doc
    /\ UNCHANGED <<fs, panicked, updates, rvars>>

Undo ==
    /\ ~panicked
    /\ doc' = undo(doc)
    /\ lastOp' = Called("undo", None, TRUE)
    /\ prev' = doc
    /\ UNCHANGED <<fs, panicked, updates, rvars>>

Redo ==
    /\ ~panicked
    /\ doc' = redo(doc)
    /\ lastOp' = Called("redo", None, TRUE)
    /\ prev' = doc
    /\ UNCHANGED <<fs, panicked, updates, rvars>>

Reset ==
    /\ ~panicked
    /\ doc' = reset(doc)
    /\ lastOp' = Called("reset", None, TRUE)
    /\ prev' = doc
    /\ UNCHANGED <<fs, panicked, updates, rvars>>

OpenOk ==
    /\ ~panicked
    /\ \E path \in Paths :
          /\ fs[path] # NoFile
          /\ doc' = open(doc, fs, path)
          /\ lastOp' = Called("open", path, TRUE)
    /\ prev' = doc
    /\ UNCHANGED <<fs, panicked, updates, rvars>>

\* File::open or read_to_string fails: expect() panics after reset and
\* after file_path was set
OpenPanic ==
    /\ ~panicked
    /\ \E path \in Paths :
          /\ doc' = open_before_read(doc, path)
          /\ lastOp' = Called("open", path, FALSE)
    /\ prev' = doc
    /\ panicked' = TRUE
    /\ UNCHANGED <<fs, updates, rvars>>

SaveOk ==
    /\ ~panicked
    /\ \E path \in Paths :
          /\ doc' = save(doc, fs, path).doc
          /\ fs' = save(doc, fs, path).fs
          /\ lastOp' = Called("save", path, TRUE)
    /\ prev' = doc
    /\ UNCHANGED <<panicked, updates, rvars>>

\* File::create fails (the file is untouched) or write_all fails (the file
\* was already truncated by create): expect() panics after file_path was set
SavePanic ==
    /\ ~panicked
    /\ \E path \in Paths :
          /\ doc' = save_before_write(doc, path)
          /\ \/ fs' = fs
             \/ fs' = write_string(fs, path, EmptyString)
          /\ lastOp' = Called("save", path, FALSE)
    /\ prev' = doc
    /\ panicked' = TRUE
    /\ UNCHANGED <<updates, rvars>>

Next ==
    \/ Update
    \/ Undo
    \/ Redo
    \/ Reset
    \/ OpenOk
    \/ OpenPanic
    \/ SaveOk
    \/ SavePanic

Spec == Init /\ [][Next]_vars

\* ------------------------------------------------ the eviction scenario
\* a fresh document, MAX_UNDO updates with pairwise distinct non-empty
\* texts, then any number of undos
Range(s) == {s[i] : i \in 1..Len(s)}

EvictUpdate ==
    /\ Len(updates) < MAX_UNDO
    /\ \E value \in DistinctTexts \ Range(updates) :
          /\ doc' = update(doc, value)
          /\ lastOp' = Called("update", value, TRUE)
          /\ updates' = Append(updates, value)
    /\ prev' = doc
    /\ UNCHANGED <<fs, panicked, rvars>>

EvictUndo ==
    /\ Len(updates) = MAX_UNDO
    /\ doc' = undo(doc)
    /\ lastOp' = Called("undo", None, TRUE)
    /\ prev' = doc
    /\ UNCHANGED <<fs, panicked, updates, rvars>>

NextEvict ==
    \/ EvictUpdate
    \/ EvictUndo

SpecEvict == Init /\ [][NextEvict]_vars

\* ------------------------------------------- the reducer and its tasks
\* The state after activate(): the channel exists and transmit(tx) was
\* called, so tx.as_ref().unwrap() never fails.

\* the presentation layer (or a signal handler of the text buffer) sends
UserSend ==
    /\ requests < MaxRequests
    /\ \E action \in UserActions : chan' = send(chan, action)
    /\ requests' = requests + 1
    /\ UNCHANGED <<doc, fs, panicked, lastOp, prev, updates, status, tasks,
                   changes, processed, before, delivered, buffer, opened>>

\* a thread just spawned: about to make its storage call
Spawned(w, d, last) ==
    [kind |-> w.kind, path |-> w.path, contents |-> w.contents,
     pc |-> "io", pending |-> << >>, failed |-> FALSE, sent |-> 0,
     stored |-> NoFile,
     textAtSpawn |-> text(d),
     afterEdit |-> IF last.type = "DocumentChanged"
                   THEN last.value ELSE NoFile]

\* rx.attach: the main loop hands the next action to ApplicationModel::update
Process ==
    /\ ~panicked
    /\ chan # << >>
    /\ LET action == Head(chan)
           res == model_update(
                     [document |-> doc, status_message |-> status], action)
       IN  /\ doc' = res.document
           /\ status' = res.status_message
           /\ changes' = res.changes
           /\ tasks' = tasks \o
                 [i \in 1..Len(res.spawn) |->
                     Spawned(res.spawn[i], doc, processed)]
           /\ processed' = action
           /\ delivered' = IF "from" \in DOMAIN action
                            THEN delivered \cup {action.from}
                            ELSE delivered
    /\ chan' = Tail(chan)
    /\ before' = processed
    /\ prev' = doc
    /\ UNCHANGED <<fs, panicked, lastOp, updates, requests, buffer, opened>>

\* a task makes its blocking storage call and builds its completion action
TaskIO ==
    \E i \in 1..Len(tasks) :
       /\ tasks[i].pc = "io"
       /\ \E fault \in (IF tasks[i].kind = "read"
                        THEN ReadFaults ELSE WriteFaults) :
             LET ran == IF tasks[i].kind = "read"
                        THEN read_task(tasks[i], fs, fault)
                        ELSE write_task(tasks[i], fs, fault)
             IN  /\ fs' = ran.fs
                 /\ tasks' = [tasks EXCEPT ![i].pc = "send",
                                           ![i].pending = ran.send,
                                           ![i].failed = ran.failed,
                                           ![i].stored =
                                               ran.fs[tasks[i].path]]
       /\ UNCHANGED <<doc, panicked, lastOp, prev, updates, status, chan,
                      changes, processed, before, requests, delivered,
                      buffer, opened>>

\* the action as it travels in the channel, marked with the task it is from
From(i, action) == [from |-> i] @@ action

RECURSIVE SendAll(_, _, _)
SendAll(c, i, actions) ==
    IF actions = << >> THEN c
    ELSE SendAll(send(c, From(i, Head(actions))), i, Tail(actions))

\* tx.send(...).ok(), then the thread ends
TaskSend ==
    \E i \in 1..Len(tasks) :
       /\ tasks[i].pc = "send"
       /\ chan' = SendAll(chan, i, tasks[i].pending)
       /\ tasks' = [tasks EXCEPT ![i].pc = "done",
                                 ![i].sent = Len(tasks[i].pending)]
       /\ UNCHANGED <<doc, fs, panicked, lastOp, prev, updates, status,
                      changes, processed, before, requests, delivered,
                      buffer, opened>>

NextReducer ==
    \/ UserSend
    \/ Process
    \/ TaskIO
    \/ TaskSend

SpecReducer == Init /\ [][NextReducer]_vars

\* the main loop dispatches every action it has received, and every
\* spawned thread gets to run: its storage call returns and it sends
SpecReducerFair ==
    /\ SpecReducer
    /\ WF_vars(Process)
    /\ WF_vars(TaskIO)
    /\ WF_vars(TaskSend)

\* ------------------------------------------------ the window's text body
\* an action sent by a signal handler while set_text was running
Echo(action) == [echo |-> TRUE] @@ action

IsEcho(action) == "echo" \in DOMAIN action

\* the "delete-range" and "insert-text" handlers of transmit(), connected
\* to run after the default handler: each sends the buffer's new value
on_delete_range(b) == <<DocumentChanged(b)>>

on_insert_text(b) == <<DocumentChanged(b)>>

\* gtk::TextBuffer::set_text: deletes the contents if there are any, then
\* inserts the text if it is not empty; each step emits its signal
set_text(b, t) ==
    [buffer |-> t,
     sent |-> (IF b # EmptyString
               THEN on_delete_range(EmptyString) ELSE << >>)
              \o (IF t # EmptyString THEN on_insert_text(t) ELSE << >>)]

\* ApplicationWindow::update, the text body only
window_update(b, d, ch) ==
    IF ch.text THEN set_text(b, text(d)) ELSE [buffer |-> b, sent |-> << >>]

RECURSIVE SendEchoes(_, _)
SendEchoes(c, actions) ==
    IF actions = << >> THEN c
    ELSE SendEchoes(send(c, Echo(Head(actions))), Tail(actions))

\* the user inserts or deletes text in the body: one signal, one action
WindowEdit ==
    /\ requests < MaxRequests
    /\ \E v \in Texts \ {buffer} :
          /\ buffer' = v
          /\ chan' = send(chan, DocumentChanged(v))
    /\ requests' = requests + 1
    /\ UNCHANGED <<doc, fs, panicked, lastOp, prev, updates, status, tasks,
                   changes, processed, before, delivered, opened>>

\* the user picks New, or a path in the Open or Save dialog
WindowRequest ==
    /\ requests < MaxRequests
    /\ \E action \in UserActions :
          /\ action.type # "DocumentChanged"
          /\ chan' = send(chan, action)
    /\ requests' = requests + 1
    /\ UNCHANGED <<doc, fs, panicked, lastOp, prev, updates, status, tasks,
                   changes, processed, before, delivered, buffer, opened>>

\* rx.attach: ApplicationModel::update, then the window is refreshed from
\* the Changes it returned
Dispatch ==
    /\ ~panicked
    /\ chan # << >>
    /\ LET action == Head(chan)
           res == model_update(
                     [document |-> doc, status_message |-> status], action)
           shown == window_update(buffer, res.document, res.changes)
       IN  /\ doc' = res.document
           /\ status' = res.status_message
           /\ changes' = res.changes
           /\ tasks' = tasks \o
                 [i \in 1..Len(res.spawn) |->
                     Spawned(res.spawn[i], doc, processed)]
           /\ processed' = action
           /\ delivered' = IF "from" \in DOMAIN action
                            THEN delivered \cup {action.from}
                            ELSE delivered
           /\ buffer' = shown.buffer
           /\ chan' = SendEchoes(Tail(chan), shown.sent)
           /\ opened' = IF action.type = "FileOpenFinished"
                            /\ action.result.ok
                         THEN action.result.contents
                         ELSE IF IsEcho(action) THEN opened ELSE NoFile
    /\ before' = processed
    /\ prev' = doc
    /\ UNCHANGED <<fs, panicked, lastOp, updates, requests>>

NextWindow ==
    \/ WindowEdit
    \/ WindowRequest
    \/ Dispatch
    \/ TaskIO
    \/ TaskSend

SpecWindow == Init /\ [][NextWindow]_vars

\* n calls of undo, n calls of redo
RECURSIVE UndoTimes(_, _)
UndoTimes(d, n) == IF n = 0 THEN d ELSE UndoTimes(undo(d), n - 1)

RECURSIVE RedoTimes(_, _)
RedoTimes(d, n) == IF n = 0 THEN d ELSE RedoTimes(redo(d), n - 1)

\* ---------------------------------------------------------------- claims

\* C1: in every reachable state the history is non-empty and
\* 0 <= current_revision < len(history).
C1_PositionValid ==
    /\ Len(doc.history) >= 1
    /\ 0 <= doc.current_revision
    /\ doc.current_revision < Len(doc.history)

\* an undo at the floor, and an update on a full history made after an undo
C1_Witness ==
    \/ lastOp.op = "undo" /\ prev.current_revision = 0
    \/ /\ lastOp.op = "update"
       /\ Len(prev.history) = MAX_UNDO
       /\ can_redo(prev)

\* C2: the number of snapshots never exceeds MAX_UNDO.
C2_HistoryBounded == Len(doc.history) <= MAX_UNDO

C2_Witness ==
    /\ lastOp.op = "update"
    /\ Len(prev.history) = MAX_UNDO
    /\ ~can_redo(prev)
    /\ Len(doc.history) = MAX_UNDO

\* C3: update, undo and redo never change original(); on a full history
\* update removes index 1, never index 0: what is kept before the new text
\* is snapshot 0 followed by a run of the old snapshots starting at index 2.
C3_OriginalKept ==
    /\ lastOp.op \in {"update", "undo", "redo"} =>
          original(doc) = original(prev)
    /\ lastOp.op = "update" /\ Len(prev.history) >= MAX_UNDO =>
          \E k \in 2..Len(prev.history) :
             SubSeq(doc.history, 1, Len(doc.history) - 1) =
                <<Get(prev.history, 0)>> \o SubSeq(prev.history, 3, k)

C3_Witness ==
    /\ lastOp.op = "update"
    /\ Len(prev.history) = MAX_UNDO
    /\ Get(prev.history, 1) # Get(prev.history, 0)
    /\ Get(prev.history, 1) # Get(prev.history, 2)
    /\ original(doc) = original(prev)

\* C4: update(newText) yields the snapshots up to the position followed by
\* newText, the position at the new last index and no redo; snapshot 1 may
\* be missing only when the history truncated to position+1 entries already
\* had MAX_UNDO entries.
C4_UpdateTruncatesThenAppends ==
    lastOp.op = "update" =>
       LET T == SubSeq(prev.history, 1, prev.current_revision + 1)
       IN  /\ doc.current_revision = Len(doc.history) - 1
           /\ ~can_redo(doc)
           /\ \/ doc.history = Append(T, lastOp.arg)
              \/ /\ Len(T) >= MAX_UNDO
                 /\ doc.history = Append(VecRemove(T, 1), lastOp.arg)

\* C5: after exactly MAX_UNDO updates with pairwise distinct non-empty
\* texts on a fresh document, original() is still the empty string and no
\* number of undos makes text() the text of the first update.
C5_FirstEditEvicted ==
    Len(updates) = MAX_UNDO =>
       /\ original(doc) = EmptyString
       /\ text(doc) # updates[1]

C5_Witness ==
    /\ Len(updates) = MAX_UNDO
    /\ lastOp.op = "undo"
    /\ ~can_undo(doc)
    /\ ~can_undo(prev)

\* C6: while the history is below MAX_UNDO entries, after an update
\* canUndo() is true and isDirty() is true iff the text supplied differs
\* from original().
C6_UpdateDirty ==
    lastOp.op = "update" /\ Len(doc.history) < MAX_UNDO =>
       /\ can_undo(doc)
       /\ is_dirty(doc) <=> (lastOp.arg # original(doc))

C6_Witness ==
    /\ lastOp.op = "update"
    /\ Len(doc.history) < MAX_UNDO
    /\ can_undo(doc)
    /\ ~is_dirty(doc)
    /\ original(doc) # EmptyString

\* C7 as stated: in a state where canRedo() is true, undo() then redo()
\* leaves text() as it was before the undo.
C7_UndoRedoWhenCanRedo ==
    lastOp.op = "undo" /\ can_redo(prev) =>
       text(redo(doc)) = text(prev)

\* C7 as amended: in a state where canUndo() is true, undo() then redo()
\* leaves text() as it was before the undo.
C7_UndoRedoWhenCanUndo ==
    lastOp.op = "undo" /\ can_undo(prev) =>
       text(redo(doc)) = text(prev)

C7_Witness ==
    /\ lastOp.op = "undo"
    /\ can_undo(prev)
    /\ can_redo(prev)
    /\ text(doc) # text(prev)
    /\ text(redo(doc)) = text(prev)

\* C8: after a successful save(path) the file at path holds the text() of
\* the call, filepath() is path and text() is unchanged.
C8_SaveWritesText ==
    lastOp.op = "save" /\ lastOp.ok =>
       /\ fs[lastOp.arg] = text(prev)
       /\ filepath(doc) = lastOp.arg
       /\ text(doc) = text(prev)

C8_Witness ==
    /\ lastOp.op = "save"
    /\ lastOp.ok
    /\ is_dirty(prev)
    /\ filepath(prev) \notin {None, lastOp.arg}
    /\ fs[lastOp.arg] = text(prev)

\* C9: right after a successful save(path), from any position, original()
\* equals text() and isDirty() is false.
C9_SaveCleans ==
    lastOp.op = "save" /\ lastOp.ok =>
       /\ original(doc) = text(doc)
       /\ ~is_dirty(doc)

\* a save at a position reached by undo, of a dirty document
C9_Witness ==
    /\ lastOp.op = "save"
    /\ lastOp.ok
    /\ can_undo(prev)
    /\ can_redo(prev)
    /\ is_dirty(prev)
    /\ ~is_dirty(doc)

\* C10: a successful save(path) changes only snapshot 0 and the file path:
\* position, number of snapshots and every snapshot at an index > 0 are
\* kept, canUndo()/canRedo() keep their values, and every revision 1..len-1
\* is still reached by undo/redo with its text of before the save.
C10_SaveFrame ==
    lastOp.op = "save" /\ lastOp.ok =>
       /\ doc.current_revision = prev.current_revision
       /\ Len(doc.history) = Len(prev.history)
       /\ \A i \in 1..(Len(prev.history) - 1) :
             Get(doc.history, i) = Get(prev.history, i)
       /\ can_undo(doc) = can_undo(prev)
       /\ can_redo(doc) = can_redo(prev)
       /\ \A i \in 1..(Len(prev.history) - 1) :
             LET moved == IF i <= doc.current_revision
                          THEN UndoTimes(doc, doc.current_revision - i)
                          ELSE RedoTimes(doc, i - doc.current_revision)
             IN  text(moved) = Get(prev.history, i)

C10_Witness ==
    /\ lastOp.op = "save"
    /\ lastOp.ok
    /\ Len(prev.history) = MAX_UNDO
    /\ can_undo(prev)
    /\ can_redo(prev)
    /\ original(doc) # original(prev)

\* C11 as stated: save(p); update(s); undo() ends with text() equal to the
\* text that was saved and isDirty() false.
C11_SaveUpdateUndo ==
    lastOp.op = "save" /\ lastOp.ok =>
       \A s \in Texts :
          LET after == undo(update(doc, s))
          IN  /\ text(after) = text(prev)
              /\ ~is_dirty(after)

\* C12: after a successful open(path) with the storage holding c at path
\* the history is the single snapshot c, nothing to undo or redo, not
\* dirty, filepath() is path; the reducer's FileOpenFinished(Ok(path, c))
\* leaves the same document whatever the document was before.
C12_OpenReseeds ==
    /\ lastOp.op = "open" /\ lastOp.ok =>
          /\ doc.history = <<fs[lastOp.arg]>>
          /\ text(doc) = fs[lastOp.arg]
          /\ original(doc) = fs[lastOp.arg]
          /\ ~can_undo(doc) /\ ~can_redo(doc) /\ ~is_dirty(doc)
          /\ filepath(doc) = lastOp.arg
    /\ \A path \in Paths, c \in Texts :
          LET d == model_update(
                      [document |-> doc, status_message |-> status],
                      FileOpenFinished(Ok(path, c))).document
          IN  /\ d.history = <<c>>
              /\ text(d) = c /\ original(d) = c
              /\ ~can_undo(d) /\ ~can_redo(d) /\ ~is_dirty(d)
              /\ filepath(d) = path

C12_Witness ==
    /\ lastOp.op = "open"
    /\ lastOp.ok
    /\ can_undo(prev)
    /\ can_redo(prev)
    /\ is_dirty(prev)
    /\ text(doc) # EmptyString
    /\ text(doc) # text(prev)

\* C13: reset() leaves a document equal to a freshly constructed one, and
\* so does the reducer's OpenFile(None).
C13_ResetIsFresh ==
    /\ lastOp.op = "reset" =>
          /\ doc = new
          /\ filepath(doc) = None
          /\ text(doc) = EmptyString
          /\ ~can_undo(doc) /\ ~can_redo(doc) /\ ~is_dirty(doc)
    /\ model_update([document |-> doc, status_message |-> status],
                    OpenFile(None)).document = new

C13_Witness ==
    /\ lastOp.op = "reset"
    /\ can_redo(prev)
    /\ is_dirty(prev)
    /\ filepath(prev) # None

\* C14 as stated: a failed read during open(path) is an error outcome, not
\* a crash, and leaves the single empty snapshot at position 0.
C14_OpenFailureIsError ==
    lastOp.op = "open" /\ ~lastOp.ok =>
       /\ ~panicked
       /\ doc.history = <<EmptyString>>
       /\ doc.current_revision = 0

\* C15: FileOpenFinished(Err) and FileSaveFinished(Err) leave the document
\* as it was; the status message is set and the Changes has only the
\* status flag.
C15_ErrLeavesDocument ==
    processed.type \in {"FileOpenFinished", "FileSaveFinished"}
       /\ ~processed.result.ok =>
          /\ doc = prev
          /\ changes = Changes_new(FALSE, FALSE, TRUE)
          /\ status = IF processed.type = "FileOpenFinished"
                      THEN "FileOpenFinished(Err(IOError))"
                      ELSE "FileSaveFinished(Err(IOError))"

C15_Witness ==
    /\ processed.type = "FileOpenFinished"
    /\ ~processed.result.ok
    /\ can_undo(doc)
    /\ is_dirty(doc)

\* C16: a failed storage call in a task yields the completion action with
\* Err(IOError), which is sent; nothing panics and the reducer can still
\* take the next action from the channel.
C16_FailureBecomesErrAction ==
    /\ ~panicked
    /\ \A i \in 1..Len(tasks) :
          tasks[i].failed =>
             /\ tasks[i].pc = "send" =>
                   tasks[i].pending =
                      <<IF tasks[i].kind = "read"
                        THEN FileOpenFinished(ErrIOError)
                        ELSE FileSaveFinished(ErrIOError)>>
             /\ tasks[i].pc = "done" => tasks[i].sent = 1
    /\ chan # << >> => ENABLED Process

\* a later action was processed after the failure's completion action
C16_Witness ==
    /\ \E i \in 1..Len(tasks) : tasks[i].failed /\ tasks[i].pc = "done"
    /\ before.type \in {"FileOpenFinished", "FileSaveFinished"}
    /\ ~before.result.ok
    /\ processed.type = "DocumentChanged"

\* C17: what a save task writes is text() as it was when the reducer
\* processed the SaveFile: the edit processed just before it is included,
\* edits processed later are not.
C17_SaveWritesFrozenText ==
    \A i \in 1..Len(tasks) :
       tasks[i].kind = "write" =>
          /\ tasks[i].contents = tasks[i].textAtSpawn
          /\ tasks[i].afterEdit # NoFile =>
                tasks[i].contents = tasks[i].afterEdit
          /\ tasks[i].pc # "io" /\ ~tasks[i].failed =>
                tasks[i].stored = tasks[i].textAtSpawn

\* the write happened after a later edit had been processed
C17_Witness ==
    \E i \in 1..Len(tasks) :
       /\ tasks[i].kind = "write"
       /\ tasks[i].pc = "send"
       /\ ~tasks[i].failed
       /\ processed.type = "DocumentChanged"
       /\ text(doc) # tasks[i].textAtSpawn
       /\ tasks[i].stored = tasks[i].textAtSpawn

\* C18: FileSaveFinished(Ok(path, frozen)) processed right after an edit
\* made while the save was in flight leaves text() as the edit made it,
\* makes original() the frozen text, so isDirty() iff they differ.
C18_SaveFinishedKeepsLiveText ==
    processed.type = "FileSaveFinished" /\ processed.result.ok
       /\ before.type = "DocumentChanged" =>
          /\ text(doc) = text(prev)
          /\ text(doc) = before.value
          /\ original(doc) = processed.result.contents
          /\ is_dirty(doc) <=> (before.value # processed.result.contents)

C18_Witness ==
    /\ processed.type = "FileSaveFinished"
    /\ processed.result.ok
    /\ before.type = "DocumentChanged"
    /\ is_dirty(doc)
    /\ filepath(doc) = processed.result.path

\* C19: the document, the status and the Changes change only in a step of
\* the reducer, which applies one whole action; a step of a task leaves
\* them alone and at most appends one completion action to the channel.
C19_OnlyReducerMutates ==
    [][/\ (doc' # doc \/ status' # status \/ changes' # changes) =>
             /\ chan # << >>
             /\ chan' = Tail(chan)
             /\ LET res == model_update(
                      [document |-> doc, status_message |-> status],
                      Head(chan))
                IN  /\ doc' = res.document
                    /\ status' = res.status_message
                    /\ changes' = res.changes
       /\ (\E i \in 1..Len(tasks) : tasks'[i] # tasks[i]) =>
             /\ doc' = doc /\ status' = status /\ changes' = changes
             /\ \/ chan' = chan
                \/ /\ Len(chan') = Len(chan) + 1
                   /\ SubSeq(chan', 1, Len(chan)) = chan
                   /\ chan'[Len(chan')].type \in
                         {"FileOpenFinished", "FileSaveFinished"}
      ]_vars

\* a task is between its storage call and its send while the reducer has
\* processed an edit
C19_Witness ==
    /\ \E i \in 1..Len(tasks) : tasks[i].pc = "send"
    /\ processed.type = "DocumentChanged"
    /\ can_undo(doc)
    /\ doc # prev

\* C20: every task sends exactly one completion action, of its kind,
\* whether its storage call succeeded or failed.
C20_ExactlyOneCompletion ==
    \A i \in 1..Len(tasks) :
       /\ tasks[i].sent <= 1
       /\ tasks[i].pc = "done" => tasks[i].sent = 1
       /\ tasks[i].pc # "done" => tasks[i].sent = 0
       /\ tasks[i].pc = "send" =>
             /\ Len(tasks[i].pending) = 1
             /\ tasks[i].pending[1].type =
                   IF tasks[i].kind = "read"
                   THEN "FileOpenFinished" ELSE "FileSaveFinished"

C20_Witness ==
    \E i, j \in 1..Len(tasks) :
       /\ tasks[i].pc = "done" /\ tasks[i].failed /\ tasks[i].sent = 1
       /\ tasks[j].pc = "done" /\ ~tasks[j].failed /\ tasks[j].sent = 1

\* C21: DocumentChanged(text) applies update(text) to the document and
\* returns a Changes with no flag set; of two consecutive DocumentChanged
\* with the same text each appends its own snapshot.
C21_DocumentChangedUpdates ==
    processed.type = "DocumentChanged" =>
       /\ changes = Changes_new(FALSE, FALSE, FALSE)
       /\ text(doc) = processed.value
       /\ doc.current_revision = Len(doc.history) - 1
       /\ can_undo(doc)
       /\ Len(prev.history) < MAX_UNDO =>
             doc.history = Append(prev.history, processed.value)
       /\ before = processed /\ Len(doc.history) >= 3 =>
             /\ Get(doc.history, Len(doc.history) - 1) = processed.value
             /\ Get(doc.history, Len(doc.history) - 2) = processed.value

C21_Witness ==
    /\ processed.type = "DocumentChanged"
    /\ before = processed
    /\ Len(doc.history) = Len(prev.history) + 1
    /\ text(doc) = text(prev)
    /\ is_dirty(doc)

\* C22: processing OpenFile(Some(path)) or SaveFile(path) leaves the
\* document as it is; it sets the status message, returns a Changes with
\* only the status flag and spawns exactly one task.
C22_SpawnLeavesDocument ==
    [][(/\ chan # << >>
        /\ chan' = Tail(chan)
        /\ \/ Head(chan).type = "OpenFile" /\ Head(chan).path # None
           \/ Head(chan).type = "SaveFile") =>
          /\ doc' = doc
          /\ status' = IF Head(chan).type = "OpenFile"
                       THEN "OpeningFile" ELSE "SavingFile"
          /\ changes' = Changes_new(FALSE, FALSE, TRUE)
          /\ Len(tasks') = Len(tasks) + 1
          /\ SubSeq(tasks', 1, Len(tasks)) = tasks
          /\ tasks'[Len(tasks')].path = Head(chan).path
          /\ tasks'[Len(tasks')].kind =
                IF Head(chan).type = "OpenFile" THEN "read" ELSE "write"
          /\ tasks'[Len(tasks')].pc = "io"
          /\ fs' = fs
      ]_vars

C22_Witness ==
    /\ processed.type = "OpenFile"
    /\ processed.path # None
    /\ status = "OpeningFile"
    /\ doc = prev
    /\ is_dirty(doc)
    /\ filepath(doc) = None
    /\ Len(tasks) = 1

\* C23 as stated: update(s) followed by undo() makes text() what it was
\* just before the update, from every reachable state.
C23_UpdateThenUndo ==
    lastOp.op = "update" => text(undo(doc)) = text(prev)

\* C24: undo() sets the position to max(0, position - 1) and redo() to
\* min(len - 1, position + 1); neither changes the snapshots, their number
\* or the file path, and neither fails at its boundary.
C24_UndoRedoMoveOnly ==
    /\ lastOp.op = "undo" =>
          /\ doc.current_revision =
                IF prev.current_revision - 1 > 0
                THEN prev.current_revision - 1 ELSE 0
          /\ doc.history = prev.history
          /\ doc.file_path = prev.file_path
          /\ lastOp.ok /\ ~panicked
    /\ lastOp.op = "redo" =>
          /\ doc.current_revision =
                IF prev.current_revision + 1 < Len(prev.history) - 1
                THEN prev.current_revision + 1 ELSE Len(prev.history) - 1
          /\ doc.history = prev.history
          /\ doc.file_path = prev.file_path
          /\ lastOp.ok /\ ~panicked

\* a redo at the ceiling of a full history
C24_Witness ==
    /\ lastOp.op = "redo"
    /\ ~can_redo(prev)
    /\ Len(prev.history) = MAX_UNDO
    /\ doc = prev
    /\ filepath(doc) # None

\* C25: from a state at position p, k <= p undos followed by k redos give
\* back the same position and the same text(); when nothing could be
\* redone before, nothing can be redone after.
C25_UndosThenRedos ==
    \A k \in 0..doc.current_revision :
       LET back == RedoTimes(UndoTimes(doc, k), k)
       IN  /\ back.current_revision = doc.current_revision
           /\ text(back) = text(doc)
           /\ can_redo(back) = can_redo(doc)
           /\ UndoTimes(doc, k).current_revision = doc.current_revision - k

\* three updates with distinct texts, nothing to redo: three undos lead to
\* the original
C25_Witness ==
    /\ lastOp.op = "update"
    /\ doc.current_revision = 3
    /\ ~can_redo(doc)
    /\ text(UndoTimes(doc, 3)) = original(doc)
    /\ text(UndoTimes(doc, 1)) # text(doc)
    /\ text(UndoTimes(doc, 2)) # text(UndoTimes(doc, 1))
    /\ RedoTimes(UndoTimes(doc, 3), 3) = doc

\* C26: under fair scheduling every task spawned for an OpenFile(Some(path))
\* or a SaveFile(path) is eventually followed by the reducer processing
\* that task's completion action.
C26_CompletionProcessed ==
    (delivered # 1..Len(tasks)) ~> (delivered = 1..Len(tasks))

C26_Witness ==
    /\ Len(tasks) = 2
    /\ delivered = {1, 2}
    /\ tasks[1].kind # tasks[2].kind
    /\ tasks[1].failed # tasks[2].failed
    /\ chan = << >>

\* C27 as stated: the status never stays OpeningFile or SavingFile; once
\* every task has finished and the channel is drained, with nothing more
\* requested, the status is a finished one.
C27_StatusSettles ==
    (chan = << >> /\ \A i \in 1..Len(tasks) : tasks[i].pc = "done") =>
       status \notin {"OpeningFile", "SavingFile"}

\* C28 as stated: for every action but DocumentChanged, if processing it
\* changed text() the text flag is set, and if it changed the file path the
\* filename flag is set.
C28_ChangesNeverUnderReport ==
    processed.type \notin {"none", "DocumentChanged"} =>
       /\ text(doc) # text(prev) => changes.text
       /\ filepath(doc) # filepath(prev) => changes.filename

\* C29 as stated: when no task is running, no action is pending, no storage
\* call has failed and the document has a file path, original() is what the
\* storage holds at that path.
C29_BaselineTracksDisk ==
    (/\ chan = << >>
     /\ \A i \in 1..Len(tasks) : tasks[i].pc = "done" /\ ~tasks[i].failed
     /\ filepath(doc) # None) =>
       original(doc) = fs[filepath(doc)]

\* C30 as stated: after OpenFile(Some(p1)) then OpenFile(Some(p2)), both
\* reads succeeding, once both completion actions are processed the file
\* path is p2 and the text is the content of p2.
C30_LastOpenWins ==
    (/\ Len(tasks) = 2
     /\ tasks[1].kind = "read" /\ tasks[2].kind = "read"
     /\ ~tasks[1].failed /\ ~tasks[2].failed
     /\ delivered = {1, 2}
     /\ processed.type = "FileOpenFinished"
     /\ before.type = "FileOpenFinished") =>
       /\ filepath(doc) = tasks[2].path
       /\ text(doc) = fs[tasks[2].path]

\* C31: in every state reached through the reducer alone the document's
\* position is the last index of its history, so can_redo is false: the
\* reducer never calls undo or redo and no branch leaves a snapshot after
\* the position.
C31_PositionAtEnd ==
    /\ doc.current_revision = Len(doc.history) - 1
    /\ ~can_redo(doc)

\* two buffer edits were processed: the history has grown to three snapshots
C31_Witness ==
    /\ processed.type = "DocumentChanged"
    /\ before.type = "DocumentChanged"
    /\ Len(doc.history) = 3
    /\ doc.current_revision = 2

\* C32: the text refresh that follows FileOpenFinished(Ok(path, contents))
\* feeds no DocumentChanged back into the channel, and once the channel is
\* drained the history is still the single snapshot [contents] with
\* can_undo false.
C32_OpenRefreshSilent ==
    /\ (processed.type = "FileOpenFinished" /\ processed.result.ok) =>
          \A i \in 1..Len(chan) : ~IsEcho(chan[i])
    /\ (opened # NoFile /\ chan = << >>) =>
          /\ doc.history = <<opened>>
          /\ ~can_undo(doc)

====
